---- MODULE Spec2Model ----
(***************************************************************************)
(* Model of api/detect.py: the AIDetectorModel feature pipeline            *)
(* (tokenizer, feature extractor, scorer, decision/formatter) and the      *)
(* do_POST request handler that calls it.                                  *)
(*                                                                         *)
(* Representation.  A text is a sequence of one-character strings.  A      *)
(* Python float is an IEEE 754 binary64 number [s, m, e] standing for      *)
(* (-1)^s * m * 2^e, and every float operation of the code is computed     *)
(* exactly and rounded as the hardware rounds it.  Reported numbers        *)
(* (round(x, 1)) are integers counting tenths, round(x, 2) integers        *)
(* counting hundredths.                                                    *)
(***************************************************************************)
EXTENDS Integers, Sequences, FiniteSets, TLC

VARIABLES
    text,            \* the string a method of the model is called on
    op,              \* the method that was called, "none" before the call
    words,           \* what _tokenize returned
    sentences,       \* what _split_sentences returned
    features,        \* what extract_features returned
    result,          \* what predict returned
    fault,           \* the exception predict raised, "none" when it returned
    request,         \* the POST request the handler is given
    response,        \* the response the handler sent
    predict_called,  \* whether the handler invoked detector.predict
    prob             \* ai_probability: given to the decision step, or computed by predict

vars == <<text, op, words, sentences, features, result, fault, request, response,
          predict_called, prob>>

(***************************************************************************)
(* Characters                                                              *)
(***************************************************************************)
LowerLetters == <<"a","b","c","d","e","f","g","h","i","j","k","l","m",
                  "n","o","p","q","r","s","t","u","v","w","x","y","z">>

UpperLetters == <<"A","B","C","D","E","F","G","H","I","J","K","L","M",
                  "N","O","P","Q","R","S","T","U","V","W","X","Y","Z">>

\* the letters above U+007F that str.lower() changes, and what it changes
\* them to (a character is a string of length 1, from U+0000 to U+00FF)
UpperLatin1 == <<"À","Á","Â","Ã","Ä","Å","Æ","Ç","È","É","Ê","Ë","Ì",
                "Í","Î","Ï","Ð","Ñ","Ò","Ó","Ô","Õ","Ö","Ø","Ù","Ú",
                "Û","Ü","Ý","Þ">>

LowerLatin1 == <<"à","á","â","ã","ä","å","æ","ç","è","é","ê","ë","ì",
                "í","î","ï","ð","ñ","ò","ó","ô","õ","ö","ø","ù","ú",
                "û","ü","ý","þ">>

Range(f) == {f[k] : k \in DOMAIN f}

LowerSet == Range(LowerLetters)

UpperSet == Range(UpperLetters)

LetterSet == LowerSet \cup UpperSet

Digits == {"0","1","2","3","4","5","6","7","8","9"}

\* the other characters above U+007F that are alphanumeric: letters that
\* have no case pair there, superscripts and fractions
OtherAlnumLatin1 == {"ª","²","³","µ","¹","º","¼","½","¾","ß","ÿ"}

\* \w of a str pattern: [a-zA-Z0-9_] and every alphanumeric character
WordCharSet ==
    LetterSet \cup Digits \cup {"_"}
    \cup Range(UpperLatin1) \cup Range(LowerLatin1) \cup OtherAlnumLatin1

\* the characters str.isspace() holds of: tab, line feed, vertical tab, form
\* feed, carriage return, U+001C to U+001F, space, U+0085 and U+00A0
Whitespace ==
    {"\t", "\n", "", "\f", "\r", "", "", "", "", " ", "", " "}

Terminators == {".", "!", "?"}

\* [a-z]
IsLowerLetter(c) == c \in LowerSet

\* [a-zA-Z]
IsLetter(c) == c \in LetterSet

\* \w
IsWordChar(c) == c \in WordCharSet

\* the characters str.strip() removes
IsSpace(c) == c \in Whitespace

\* the class [.!?] of the sentence splitter
IsTerminator(c) == c \in Terminators

\* the string '.,!?;:"-()[]{}' of feature 3
PunctuationChars == {".", ",", "!", "?", ";", ":", "\"", "-", "(", ")", "[", "]", "{", "}"}

\* the string ',;:' of feature 8
ClauseMarkers == {",", ";", ":"}

\* str.lower() on one character
ToLower(c) ==
    IF c \in UpperSet
    THEN LowerLetters[CHOOSE k \in DOMAIN UpperLetters : UpperLetters[k] = c]
    ELSE IF c \in Range(UpperLatin1)
    THEN LowerLatin1[CHOOSE k \in DOMAIN UpperLatin1 : UpperLatin1[k] = c]
    ELSE c

\* str.lower()
Lower(s) == [k \in 1..Len(s) |-> ToLower(s[k])]

\* the character at position i, "" outside the string
CharAt(t, i) == IF i \in 1..Len(t) THEN t[i] ELSE ""

\* the elements of a finite set of integers in increasing order
SortedSeq(S) ==
    [k \in 1..Cardinality(S) |-> CHOOSE s \in S : Cardinality({x \in S : x <= s}) = k]

SetMax(S) == CHOOSE x \in S : \A y \in S : y <= x

SetMin(S) == CHOOSE x \in S : \A y \in S : x <= y

\* str.strip()
Strip(s) ==
    IF \A k \in 1..Len(s) : IsSpace(s[k]) THEN <<>>
    ELSE LET first == CHOOSE k \in 1..Len(s) :
                          ~IsSpace(s[k]) /\ \A j \in 1..(k-1) : IsSpace(s[j])
             last  == CHOOSE k \in 1..Len(s) :
                          ~IsSpace(s[k]) /\ \A j \in (k+1)..Len(s) : IsSpace(s[j])
         IN  SubSeq(s, first, last)

(***************************************************************************)
(* Tokenizer                                                               *)
(***************************************************************************)
\* the regex assertion \b before position i (between t[i-1] and t[i])
WordBoundary(t, i) == IsWordChar(CharAt(t, i-1)) # IsWordChar(CharAt(t, i))

\* the last position of the run of characters of the class that starts at i
RunEnd(t, i, class) ==
    (CHOOSE k \in (i+1)..(Len(t)+1) :
        /\ CharAt(t, k) \notin class
        /\ \A j \in (i+1)..(k-1) : t[j] \in class) - 1

\* MatchWordAt for the pattern [a-zA-Z]+, without the two \b
MatchLettersAt(t, i) ==
    IF IsLetter(CharAt(t, i)) /\ ~IsLetter(CharAt(t, i-1))
    THEN RunEnd(t, i, LetterSet)
    ELSE 0

\* the end of the match of \b[a-zA-Z]+\b that starts at position i, 0 when
\* there is none: [a-zA-Z]+ is greedy and gives characters back until \b holds
MatchWordAt(t, i) ==
    IF ~(IsLetter(CharAt(t, i)) /\ WordBoundary(t, i)) THEN 0
    ELSE LET ends == {j \in i..RunEnd(t, i, LetterSet) : WordBoundary(t, j+1)}
         IN  IF ends = {} THEN 0 ELSE SetMax(ends)

\* re.findall(r'\b[a-zA-Z]+\b', text).  A match starts after a non-word
\* character and covers letters only, so no match starts inside another and
\* the left-to-right scan reports the match at every position that has one.
WordsAt(t, starts) ==
    [k \in 1..Len(starts) |-> SubSeq(t, starts[k], MatchWordAt(t, starts[k]))]

Tokenize(t) == WordsAt(t, SortedSeq({i \in 1..Len(t) : MatchWordAt(t, i) > 0}))

\* re.split(r'[.!?]+', text), each piece stripped, the empty ones dropped.
\* The pieces are the maximal runs of non-terminator characters (re.split
\* also yields empty strings at the edges, which the filter drops).
\* a character of a piece re.split cuts the text into
NonTerminator(c) == c # "" /\ ~IsTerminator(c)

\* the characters of t that [.!?] does not match
NonTerminators(t) == Range(t) \ Terminators

\* [s.strip() for s in sentences], the pieces given by where they start
StrippedPieces(t, starts) ==
    [k \in 1..Len(starts) |->
        Strip(SubSeq(t, starts[k], RunEnd(t, starts[k], NonTerminators(t))))]

\* [s for s in pieces if s]
KeepNonEmpty(pieces) ==
    LET kept == SortedSeq({k \in 1..Len(pieces) : Len(pieces[k]) > 0})
    IN  [k \in 1..Len(kept) |-> pieces[kept[k]]]

\* SplitSentences keeping only the pieces that a terminator ends, as the
\* pattern [^.!?]+[.!?]+ would
SplitTerminated(t) ==
    KeepNonEmpty(StrippedPieces(t, SortedSeq({i \in 1..Len(t) :
        /\ NonTerminator(t[i]) /\ ~NonTerminator(CharAt(t, i-1))
        /\ RunEnd(t, i, NonTerminators(t)) < Len(t)})))

SplitSentences(t) ==
    KeepNonEmpty(StrippedPieces(t, SortedSeq({i \in 1..Len(t) :
        NonTerminator(t[i]) /\ ~NonTerminator(CharAt(t, i-1))})))

(***************************************************************************)
(* Natural numbers of any size: a sequence of limbs, the least significant *)
(* first, each limb in 0..Base-1                                           *)
(***************************************************************************)
LimbBits == 14

Base == 16384

Max(p, q) == IF p > q THEN p ELSE q

Min(p, q) == IF p < q THEN p ELSE q

Limb(a, i) == IF i <= Len(a) THEN a[i] ELSE 0

Zeros(n) == [i \in 1..n |-> 0] \o <<>>

\* the limbs of the number whose i-th column is cols[i] (a column may exceed
\* a limb or be negative; the number itself is not negative)
RECURSIVE NormFrom(_, _, _)
NormFrom(cols, i, c) ==
    IF i > Len(cols)
    THEN IF c = 0 THEN <<>> ELSE <<c % Base>> \o NormFrom(cols, i, c \div Base)
    ELSE <<(cols[i] + c) % Base>> \o NormFrom(cols, i + 1, (cols[i] + c) \div Base)

Norm(cols) == NormFrom(cols \o <<>>, 1, 0)

NFromInt(n) == <<n % Base, (n \div Base) % Base, n \div (Base * Base)>>

\* the value of a number below 2^31
NToInt(a) == Limb(a, 1) + Base * Limb(a, 2) + Base * Base * Limb(a, 3)

NAdd(a, b) == Norm([i \in 1..Max(Len(a), Len(b)) |-> Limb(a, i) + Limb(b, i)])

\* a - b, for a >= b
NSub(a, b) == Norm([i \in 1..Max(Len(a), Len(b)) |-> Limb(a, i) - Limb(b, i)])

NMulSmall(a, k) == Norm([i \in 1..Len(a) |-> a[i] * k])

RECURSIVE SumProd(_, _, _, _, _)
SumProd(a, b, c, i, hi) ==
    IF i > hi THEN 0 ELSE a[i] * b[c + 1 - i] + SumProd(a, b, c, i + 1, hi)

NMul(a, b) ==
    Norm([c \in 1..(Len(a) + Len(b) - 1) |->
            SumProd(a, b, c, Max(1, c + 1 - Len(b)), Min(Len(a), c))])

\* the index of the most significant limb that is not 0, 0 for the number 0
RECURSIVE TopFrom(_, _)
TopFrom(a, i) == IF i = 0 THEN 0 ELSE IF a[i] # 0 THEN i ELSE TopFrom(a, i - 1)

NTop(a) == TopFrom(a, Len(a))

\* the number of bits of a limb v > 0
IntBitLen(v) == CHOOSE k \in 1..LimbBits : 2^(k-1) <= v /\ v < 2^k

\* the number of bits of a, 0 for the number 0
BitLen(a) ==
    IF NTop(a) = 0 THEN 0 ELSE LimbBits * (NTop(a) - 1) + IntBitLen(a[NTop(a)])

\* -1, 0 or 1 as a is below, equal to or above b
RECURSIVE CmpFrom(_, _, _)
CmpFrom(a, b, i) ==
    IF i = 0 THEN 0
    ELSE IF Limb(a, i) < Limb(b, i) THEN -1
    ELSE IF Limb(a, i) > Limb(b, i) THEN 1
    ELSE CmpFrom(a, b, i - 1)

NCmp(a, b) == CmpFrom(a, b, Max(Len(a), Len(b)))

\* a * 2^s
NShl(a, s) ==
    Zeros(s \div LimbBits) \o Norm([i \in 1..Len(a) |-> a[i] * 2^(s % LimbBits)])

DropLimbs(a, n) == IF n >= Len(a) THEN <<>> ELSE SubSeq(a, n + 1, Len(a))

ShrBits(a, t) ==
    [i \in 1..Len(a) |-> (a[i] \div 2^t) + (Limb(a, i + 1) % 2^t) * 2^(LimbBits - t)] \o <<>>

\* a \div 2^s
NShr(a, s) == ShrBits(DropLimbs(a, s \div LimbBits), s % LimbBits)

\* bit j of a (bit 0 is the least significant)
Bit(a, j) == (Limb(a, (j \div LimbBits) + 1) \div 2^(j % LimbBits)) % 2

\* some bit of a below bit j is 1
AnyBelow(a, j) ==
    \/ \E i \in 1..Min(j \div LimbBits, Len(a)) : a[i] # 0
    \/ Limb(a, (j \div LimbBits) + 1) % 2^(j % LimbBits) # 0

\* a without its leading zero limbs
Trim(a) == SubSeq(a, 1, NTop(a))

\* division by a number d below 2^17, limb by limb from the top
RECURSIVE ShortDivFrom(_, _, _, _, _)
ShortDivFrom(a, d, i, r, q) ==
    IF i = 0 \/ r < 0 THEN [q |-> q, r |-> <<r>>]
    ELSE ShortDivFrom(a, d, i - 1, (r * Base + a[i]) % d,
                      <<(r * Base + a[i]) \div d>> \o q)

ShortDiv(a, d) == ShortDivFrom(a, d, Len(a), 0, <<>>)

\* long division of a by b, limb by limb from the top; the top limb of b is
\* at least Base / 2, the remainder stays below b, and the digit is found
\* from an estimate that is never too small
RECURSIVE DivFrom(_, _, _, _, _)
RECURSIVE DivFit(_, _, _, _, _, _, _)
DivFit(a, b, i, rem, q, digit, prod) ==
    IF NCmp(prod, rem) = 1 THEN DivFit(a, b, i, rem, q, digit - 1, NSub(prod, b))
    ELSE DivFrom(a, b, i - 1, Trim(NSub(rem, prod)), <<digit>> \o q)

DivDigit(a, b, i, rem, q, digit) == DivFit(a, b, i, rem, q, digit, NMulSmall(b, digit))

DivFrom(a, b, i, rem, q) ==
    IF i = 0 \/ Len(rem) > Len(b) THEN [q |-> q, r |-> rem]
    ELSE DivDigit(a, b, i, <<a[i]>> \o rem, q,
                  Min((Limb(rem, Len(b)) * Base + Limb(rem, Len(b) - 1)) \div b[Len(b)],
                      Base - 1))

\* the top Len(b) - 1 limbs of a are below b: the first remainder
LongDiv(a, b) ==
    DivFrom(a, b, Len(a) - Len(b) + 1, SubSeq(a, Len(a) - Len(b) + 2, Len(a)), <<>>)

\* the quotient q of a by b > 0, and a remainder r that is 0 exactly when
\* the division is exact
NDiv(a, b) ==
    IF NTop(b) <= 2 /\ NToInt(b) < 2^17 THEN ShortDiv(a, NToInt(b))
    ELSE LongDiv(NShl(a, LimbBits - IntBitLen(b[NTop(b)])),
                 NShl(Trim(b), LimbBits - IntBitLen(b[NTop(b)])))

(***************************************************************************)
(* Python floats: IEEE 754 binary64.  A float is (-1)^s * m * 2^e with m   *)
(* a natural number of four limbs below 2^53; m >= 2^52 unless e = EMin    *)
(* (subnormal numbers), and 0.0 is Zero.  Every operation computes the     *)
(* exact result and rounds it to the nearest float, ties to even.          *)
(***************************************************************************)
Precision == 53

EMin == -1074

Zero == [s |-> 0, m |-> <<0, 0, 0, 0>>, e |-> 0]

MakeFloat(s, m, e) ==
    [s |-> s, m |-> <<Limb(m, 1), Limb(m, 2), Limb(m, 3), Limb(m, 4)>>, e |-> e]

\* q or q + 1: q is followed by the bit round and, when sticky, by more
RoundHalfEven(q, round, sticky) ==
    IF round = 1 /\ (sticky \/ Bit(q, 0) = 1) THEN NAdd(q, <<1>>) ELSE q

\* n \div 2^sh rounded; inexact says that n itself was cut short
ShiftRound(n, sh, inexact) ==
    RoundHalfEven(NShr(n, sh), Bit(n, sh - 1), inexact \/ AnyBelow(n, sh - 1))

Renormal(s, q, e) ==
    IF NTop(q) = 0 THEN Zero
    ELSE IF BitLen(q) > Precision THEN MakeFloat(s, NShr(q, 1), e + 1)
    ELSE MakeFloat(s, q, e)

RoundAt(s, n, e, inexact, sh, len) ==
    IF sh <= 0
    THEN MakeFloat(s, NShl(n, Min(Precision - len, e - EMin)),
                   e - Min(Precision - len, e - EMin))
    ELSE Renormal(s, ShiftRound(n, sh, inexact), e + sh)

\* the float nearest (-1)^s * n * 2^e, or nearest a number just above that
\* in magnitude when inexact
RoundToFloat(s, n, e, inexact) ==
    IF NTop(n) = 0 THEN Zero
    ELSE RoundAt(s, n, e, inexact, Max(BitLen(n) - Precision, EMin - e), BitLen(n))

\* float(n) for an int n
FromInt(n) == RoundToFloat(IF n < 0 THEN 1 ELSE 0, NFromInt(IF n < 0 THEN -n ELSE n), 0, FALSE)

IsZero(a) == NTop(a.m) = 0

FNeg(a) == IF IsZero(a) THEN a ELSE [a EXCEPT !.s = 1 - a.s]

\* a < b for floats that are not negative
LessAbs(a, b) ==
    IF IsZero(b) THEN FALSE
    ELSE IF IsZero(a) THEN TRUE
    ELSE a.e < b.e \/ (a.e = b.e /\ NCmp(a.m, b.m) = -1)

\* a < b
FLess(a, b) ==
    IF a.s # b.s THEN a.s = 1
    ELSE IF a.s = 0 THEN LessAbs(a, b) ELSE LessAbs(b, a)

AddAligned(s1, x, s2, y, e) ==
    IF s1 = s2 THEN RoundToFloat(s1, NAdd(x, y), e, FALSE)
    ELSE IF NCmp(x, y) >= 0 THEN RoundToFloat(s1, NSub(x, y), e, FALSE)
    ELSE RoundToFloat(s2, NSub(y, x), e, FALSE)

\* a + b for a.e >= b.e; b does not reach the last place of a when the
\* exponents are more than 64 apart
AddOrdered(a, b) ==
    IF a.e - b.e >= 64 THEN a
    ELSE AddAligned(a.s, NShl(a.m, a.e - b.e), b.s, b.m, b.e)

\* a + b
FAdd(a, b) ==
    IF IsZero(a) THEN b
    ELSE IF IsZero(b) THEN a
    ELSE IF a.e >= b.e THEN AddOrdered(a, b) ELSE AddOrdered(b, a)

\* a - b
FSub(a, b) == FAdd(a, FNeg(b))

\* a * b
FMul(a, b) ==
    IF IsZero(a) \/ IsZero(b) THEN Zero
    ELSE RoundToFloat((a.s + b.s) % 2, NMul(a.m, b.m), a.e + b.e, FALSE)

\* the number of zero limbs at the low end of a > 0
RECURSIVE LowZeros(_, _)
LowZeros(a, i) == IF a[i + 1] # 0 THEN i ELSE LowZeros(a, i + 1)

QuotientFloat(s, qr, e) == RoundToFloat(s, qr.q, e, NTop(qr.r) # 0)

\* a / b with the z zero limbs at the low end of b.m dropped and a.m moved
\* up by k limbs
DivLimbs(a, b, z, k) ==
    QuotientFloat((a.s + b.s) % 2, NDiv(Zeros(k) \o a.m, DropLimbs(b.m, z)),
                  a.e - b.e - LimbBits * (z + k))

\* a / b for b # 0: the quotient of the mantissas is taken to Precision + 2
\* bits or more
FDiv(a, b) ==
    IF IsZero(a) THEN Zero
    ELSE DivLimbs(a, b, LowZeros(b.m, 0),
                  Max(0, (Precision + 1 + BitLen(b.m) - BitLen(a.m)
                          - LimbBits * (LowZeros(b.m, 0) - 1)) \div LimbBits))

\* round(x, ndigits) in units of 10^-ndigits: the multiple nearest the exact
\* value of the float, ties to even
PyRound(x, ndigits) ==
    (IF x.s = 1 THEN -1 ELSE 1)
    * NToInt(IF x.e >= 0 THEN NShl(NMulSmall(x.m, 10^ndigits), x.e)
             ELSE ShiftRound(NMulSmall(x.m, 10^ndigits), -x.e, FALSE))

\* the float just above a >= 0
FNext(a) ==
    IF IsZero(a) THEN MakeFloat(0, <<1>>, EMin)
    ELSE RoundToFloat(a.s, NAdd(a.m, <<1>>), a.e, FALSE)

\* the float just below a > 0
FPrev(a) ==
    IF BitLen(NSub(a.m, <<1>>)) < Precision /\ a.e > EMin
    THEN RoundToFloat(a.s, NSub(NShl(a.m, 1), <<1>>), a.e - 1, FALSE)
    ELSE RoundToFloat(a.s, NSub(a.m, <<1>>), a.e, FALSE)

One == FromInt(1)

(***************************************************************************)
(* math.exp: e^x = 2^k * e^r with r = |x - k ln 2| < ln 2 in fixed point   *)
(* (GuardBits binary places for the reduction, FracBits for the series)    *)
(***************************************************************************)
GuardBits == 98

FracBits == 84

\* floor(ln 2 * 2^GuardBits)
Ln2 == <<3680, 7739, 10994, 3961, 8007, 8575, 11356>>

\* the largest x for which e^x is a float: 709.782712893384 = 0x1.62e42fefa39efp+9
ExpMax == [s |-> 0, m |-> <<14831, 15336, 9263, 1419>>, e |-> -43]

\* math.exp(x) raises OverflowError
ExpOverflows(x) == x.s = 0 /\ FLess(ExpMax, x)

\* floor(|x| * 2^GuardBits) for |x| < 1024
Fixed(x) ==
    IF x.e + GuardBits >= 0 THEN NShl(x.m, x.e + GuardBits)
    ELSE NShr(x.m, -(x.e + GuardBits))

\* |k|, for k = floor(x / ln 2) when x > 0 and k = -ceil(|x| / ln 2) when x < 0
Multiple(fx, s, est) ==
    IF s = 0
    THEN IF NCmp(fx, NMulSmall(Ln2, est + 1)) >= 0 THEN est + 1 ELSE est
    ELSE IF NCmp(NMulSmall(Ln2, est + 1), fx) = -1 THEN est + 2 ELSE est + 1

\* |x - k ln 2| with FracBits places, in FracBits / LimbBits limbs
Residue(fx, s, kln2) ==
    [i \in 1..(FracBits \div LimbBits) |->
        Limb(IF s = 0 THEN NSub(fx, kln2) ELSE NSub(kln2, fx),
             i + (GuardBits - FracBits) \div LimbBits)] \o <<>>

\* 1 + r + r^2/2! + ... from the term r^n/n! on, until the terms vanish
RECURSIVE ExpSeries(_, _, _, _)
ExpStep(r, term, sum, n) == ExpSeries(r, term, NAdd(sum, term), n)

ExpSeries(r, term, sum, n) ==
    IF NTop(term) = 0 \/ Len(sum) = 0 THEN sum
    ELSE ExpStep(r, Trim(ShortDiv(DropLimbs(NMul(term, r), FracBits \div LimbBits), n + 1).q),
                 sum, n + 1)

ExpSum(r) == ExpSeries(r, Trim(r), NAdd(Zeros(FracBits \div LimbBits) \o <<1>>, r), 1)

\* the two floats around sum * 2^e, which is no float: the nearest one first
Bracket(nearest, sum, e) ==
    {nearest,
     IF IsZero(nearest) THEN FNext(nearest)
     ELSE IF NCmp(NShl(nearest.m, nearest.e - e), sum) = 1 THEN FPrev(nearest)
     ELSE FNext(nearest)}

ExpReduced(sum, k) == Bracket(RoundToFloat(0, sum, k - FracBits, TRUE), sum, k - FracBits)

ExpAt(fx, s, k) ==
    ExpReduced(ExpSum(Residue(fx, s, NMulSmall(Ln2, k))), IF s = 0 THEN k ELSE -k)

\* the estimate of |x| / ln 2 is right or one too small: 1477 / 1024 is
\* just below 1 / ln 2
ExpFixed(fx, s) ==
    ExpAt(fx, s, Multiple(fx, s, (NToInt(NShr(fx, GuardBits - 10)) * 1477) \div 2^20))

\* what math.exp(x) can return when it does not raise: the C library's exp
\* is accurate to less than one unit in the last place, so it returns one of
\* the two floats around e^x
ExpValues(x) ==
    IF IsZero(x) THEN {One}
    ELSE IF x.e + BitLen(x.m) > 10 THEN {Zero, FNext(Zero)}
    ELSE ExpFixed(Fixed(x), x.s)

(***************************************************************************)
(* Feature extractor                                                       *)
(***************************************************************************)
FeatureNames ==
    <<"avg_sentence_length", "vocabulary_richness", "punctuation_density",
      "conjunction_freq", "first_person_freq", "passive_voice_freq",
      "avg_word_length", "sentence_complexity", "repetition_score",
      "formality_score">>

\* the empty dict {}
EmptyDict == [k \in {} |-> 0]

Conjunctions ==
    {<<"a","n","d">>, <<"b","u","t">>, <<"o","r">>, <<"s","o">>, <<"y","e","t">>,
     <<"f","o","r">>, <<"n","o","r">>, <<"a","l","t","h","o","u","g","h">>,
     <<"b","e","c","a","u","s","e">>, <<"s","i","n","c","e">>, <<"w","h","i","l","e">>,
     <<"w","h","e","r","e","a","s">>, <<"h","o","w","e","v","e","r">>,
     <<"t","h","e","r","e","f","o","r","e">>, <<"m","o","r","e","o","v","e","r">>,
     <<"f","u","r","t","h","e","r","m","o","r","e">>,
     <<"a","d","d","i","t","i","o","n","a","l","l","y">>,
     <<"c","o","n","s","e","q","u","e","n","t","l","y">>}

FirstPerson ==
    {<<"i">>, <<"m","e">>, <<"m","y">>, <<"m","i","n","e">>, <<"m","y","s","e","l","f">>,
     <<"w","e">>, <<"u","s">>, <<"o","u","r">>, <<"o","u","r","s">>,
     <<"o","u","r","s","e","l","v","e","s">>}

PassiveIndicators ==
    {<<"w","a","s">>, <<"w","e","r","e">>, <<"b","e","e","n">>, <<"b","e","i","n","g">>,
     <<"i","s">>, <<"a","r","e">>, <<"a","m">>}

InformalMarkers ==
    {<<"g","o","n","n","a">>, <<"w","a","n","n","a">>, <<"k","i","n","d","a">>,
     <<"s","o","r","t","a">>, <<"y","e","a","h">>, <<"y","e","p">>, <<"n","o","p","e">>,
     <<"o","k">>, <<"o","k","a","y">>, <<"h","e","y">>, <<"h","i">>, <<"w","e","l","l">>,
     <<"l","i","k","e">>, <<"a","c","t","u","a","l","l","y">>,
     <<"b","a","s","i","c","a","l","l","y">>, <<"l","i","t","e","r","a","l","l","y">>,
     <<"t","o","t","a","l","l","y">>}

\* sum(1 for char in text if char in chars)
CountChars(t, chars) == Cardinality({i \in 1..Len(t) : t[i] \in chars})

\* sum(1 for word in words if word.lower() in markers)
CountWords(ws, markers) == Cardinality({k \in 1..Len(ws) : Lower(ws[k]) \in markers})

RECURSIVE SumSeq(_)
SumSeq(s) == IF Len(s) = 0 THEN 0 ELSE s[1] + SumSeq(Tail(s))

\* ' '.join(words[i:i+3]).lower(), i counted from 1
Trigram(ws, i) == Lower(ws[i] \o <<" ">> \o ws[i+1] \o <<" ">> \o ws[i+2])

\* n / d for ints n and d # 0: Python's true division, correctly rounded
Ratio(n, d) == FDiv(FromInt(n), FromInt(d))

\* RepetitionRatio without the "1 -": the share of distinct trigrams
DistinctRatio(trigrams) ==
    IF Len(trigrams) = 0 THEN Zero
    ELSE Ratio(Cardinality(Range(trigrams)), Len(trigrams))

\* 1 - (len(unique_trigrams) / len(trigrams))
RepetitionRatio(trigrams) ==
    IF Len(trigrams) = 0 THEN Zero
    ELSE FSub(One, Ratio(Cardinality(Range(trigrams)), Len(trigrams)))

CalculateRepetition(ws) ==
    IF Len(ws) < 4 THEN Zero
    ELSE RepetitionRatio([i \in 1..(Len(ws) - 2) |-> Trigram(ws, i)])

\* the end of the match of \b\w+'[a-z]+\b that starts at position i of the
\* lowercased text, 0 when there is none: \w+ and [a-z]+ are greedy and give
\* characters back until the rest of the pattern matches
MatchContractionAt(t, i) ==
    IF ~(IsWordChar(CharAt(t, i)) /\ WordBoundary(t, i)) THEN 0
    ELSE LET quotes == {k \in i..RunEnd(t, i, WordCharSet) :
                           CharAt(t, k+1) = "'" /\ IsLowerLetter(CharAt(t, k+2))}
             EndsAfter(k) == {j \in (k+2)..RunEnd(t, k+2, LowerSet) :
                                 WordBoundary(t, j+1)}
             good == {k \in quotes : EndsAfter(k) # {}}
         IN  IF good = {} THEN 0 ELSE SetMax(EndsAfter(SetMax(good)))

\* len(re.findall(r"\b\w+'[a-z]+\b", t)) scanning from position pos: the
\* leftmost match is taken and the scan resumes after its end
RECURSIVE CountContractions(_, _)
CountFrom(t, cands) ==
    IF cands = {} THEN 0
    ELSE 1 + CountContractions(t, MatchContractionAt(t, SetMin(cands)) + 1)

CountContractions(t, pos) ==
    CountFrom(t, {i \in pos..Len(t) : MatchContractionAt(t, i) > 0})

\* Clamp without the max and the min
Unclamped(formality) == formality

\* max(0, min(1, formality)): min gives formality when it is below 1, max
\* gives its argument when that is above 0
Clamp(formality) ==
    IF ~FLess(formality, One) THEN One
    ELSE IF FLess(Zero, formality) THEN formality
    ELSE Zero

\* 1 - (contraction_ratio * 2 + informal_ratio)
Formality(contraction_ratio, informal_ratio) ==
    FSub(One, FAdd(FMul(contraction_ratio, FromInt(2)), informal_ratio))

CalculateFormality(t, ws) ==
    IF Len(ws) = 0 THEN Ratio(1, 2)
    ELSE Clamp(Formality(Ratio(CountContractions(Lower(t), 1), Len(ws)),
                         Ratio(CountWords(ws, InformalMarkers), Len(ws))))

\* sum(sentence_lengths) / len(sentence_lengths)
Mean(lengths) == Ratio(SumSeq(lengths), Len(lengths))

\* extract_features once the sentences and the words are known
FeaturesOf(t, sents, ws) ==
    IF Len(ws) = 0 \/ Len(sents) = 0 THEN EmptyDict
    ELSE [avg_sentence_length |-> Mean([k \in 1..Len(sents) |-> Len(Tokenize(sents[k]))]),
          vocabulary_richness |-> Ratio(Cardinality({Lower(ws[k]) : k \in 1..Len(ws)}), Len(ws)),
          punctuation_density |-> Ratio(CountChars(t, PunctuationChars), Len(ws)),
          conjunction_freq    |-> Ratio(CountWords(ws, Conjunctions), Len(ws)),
          first_person_freq   |-> Ratio(CountWords(ws, FirstPerson), Len(ws)),
          passive_voice_freq  |-> Ratio(CountWords(ws, PassiveIndicators), Len(ws)),
          avg_word_length     |-> Mean([k \in 1..Len(ws) |-> Len(ws[k])]),
          sentence_complexity |-> Ratio(CountChars(t, ClauseMarkers), Len(sents)),
          repetition_score    |-> CalculateRepetition(ws),
          formality_score     |-> CalculateFormality(t, ws)]

ExtractFeatures(t) ==
    IF Len(t) = 0 \/ Len(Strip(t)) = 0 THEN EmptyDict
    ELSE FeaturesOf(t, SplitSentences(t), Tokenize(t))

(***************************************************************************)
(* Scorer                                                                  *)
(***************************************************************************)
\* self.coefficients: each literal is the float nearest the decimal
Coefficients ==
    [avg_sentence_length |-> Ratio(25, 1000),
     vocabulary_richness |-> Ratio(-15, 10),
     punctuation_density |-> Ratio(-5, 10),
     conjunction_freq    |-> Ratio(6, 10),
     first_person_freq   |-> Ratio(-15, 10),
     passive_voice_freq  |-> Ratio(8, 10),
     avg_word_length     |-> Ratio(4, 10),
     sentence_complexity |-> Ratio(5, 10),
     repetition_score    |-> One,
     formality_score     |-> Ratio(12, 10)]

\* self.intercept
Intercept == Ratio(4, 10)

\* the normalisation of a feature value before it is weighted
Normalize(name, value) ==
    IF name = "avg_sentence_length" THEN FDiv(FSub(value, FromInt(15)), FromInt(10))
    ELSE IF name = "avg_word_length" THEN FDiv(FSub(value, FromInt(5)), FromInt(2))
    ELSE IF name = "sentence_complexity" THEN FDiv(FSub(value, FromInt(1)), FromInt(2))
    ELSE value

\* the loop over self.coefficients.items(), in insertion order, from entry k
\* on: logit += coefficient * value
RECURSIVE LogitFrom(_, _, _)
LogitFrom(feats, k, logit) ==
    IF k > Len(FeatureNames) THEN logit
    ELSE IF FeatureNames[k] \in DOMAIN feats
    THEN LogitFrom(feats, k + 1,
                   FAdd(logit, FMul(Coefficients[FeatureNames[k]],
                                    Normalize(FeatureNames[k], feats[FeatureNames[k]]))))
    ELSE LogitFrom(feats, k + 1, logit)

Logit(feats) == LogitFrom(feats, 1, Intercept)

\* 1 / (1 + math.exp(-logit)) for each value math.exp can return
Sigmoid(logit) == {FDiv(One, FAdd(One, v)) : v \in ExpValues(FNeg(logit))}

\* round(p * 100, 1), in tenths
RoundPercent(p) == PyRound(FMul(p, FromInt(100)), 1)

(***************************************************************************)
(* Decision / formatter                                                    *)
(***************************************************************************)
\* prediction.lower()
LowerLabel(prediction) ==
    CASE prediction = "AI" -> "ai"
      [] prediction = "Human" -> "human"
      [] prediction = "Uncertain" -> "uncertain"

\* the record predict returns when extract_features returns {}: the numbers
\* 0.0, 0.5 and 0.5, in tenths like the rounded ones
DegenerateResult ==
    [prediction        |-> "Unknown",
     confidence        |-> 0,
     ai_probability    |-> 5,
     human_probability |-> 5,
     features          |-> EmptyDict,
     message           |-> "Text too short or invalid for analysis"]

\* the 0.6 of the two comparisons
Threshold == Ratio(6, 10)

\* HumanProbability taken from ai_probability rounded to one decimal
HumanProbabilityOfRounded(ai_probability) ==
    FSub(One, Ratio(PyRound(ai_probability, 1), 10))

\* human_probability = 1 - ai_probability
HumanProbability(ai_probability) == FSub(One, ai_probability)

\* max(ai_probability, human_probability)
Larger(ai_probability, human_probability) ==
    IF FLess(ai_probability, human_probability) THEN human_probability
    ELSE ai_probability

\* Decide with >= in place of >
DecideInclusive(ai_probability, human_probability) ==
    IF ~FLess(ai_probability, Threshold)
    THEN [prediction |-> "AI", confidence |-> ai_probability]
    ELSE IF ~FLess(human_probability, Threshold)
    THEN [prediction |-> "Human", confidence |-> human_probability]
    ELSE [prediction |-> "Uncertain",
          confidence |-> Larger(ai_probability, human_probability)]

\* the if / elif / else that picks the label
Decide(ai_probability, human_probability) ==
    IF FLess(Threshold, ai_probability)
    THEN [prediction |-> "AI", confidence |-> ai_probability]
    ELSE IF FLess(Threshold, human_probability)
    THEN [prediction |-> "Human", confidence |-> human_probability]
    ELSE [prediction |-> "Uncertain",
          confidence |-> Larger(ai_probability, human_probability)]

\* the three reported numbers
Rounded(decision, ai_probability, human_probability) ==
    [prediction        |-> decision.prediction,
     confidence        |-> RoundPercent(decision.confidence),
     ai_probability    |-> RoundPercent(ai_probability),
     human_probability |-> RoundPercent(human_probability)]

\* the decision step of predict: from ai_probability to the label and the
\* three reported numbers
Report(ai_probability) ==
    LET human_probability == HumanProbability(ai_probability)
    IN  Rounded(Decide(ai_probability, human_probability), ai_probability, human_probability)

\* the record predict returns on the scored path
Formatted(t, feats, decision) ==
        [prediction        |-> decision.prediction,
         confidence        |-> decision.confidence,
         ai_probability    |-> decision.ai_probability,
         human_probability |-> decision.human_probability,
         word_count        |-> Len(Tokenize(t)),
         features          |->
             [avg_sentence_length |-> PyRound(feats["avg_sentence_length"], 2),
              vocabulary_richness |-> RoundPercent(feats["vocabulary_richness"]),
              formality_score     |-> RoundPercent(feats["formality_score"])],
         message           |-> "Analysis complete. The text appears to be "
                               \o LowerLabel(decision.prediction) \o "-"
                               \o (IF decision.prediction = "AI" THEN "generated" ELSE "written")
                               \o "."]

\* no float: the value of ai_probability when predict does not reach line 192
NoProb == [s |-> 0, m |-> <<>>, e |-> 0]

\* predict from the logit on: math.exp raises, or the scored record is
\* returned for the ai_probability computed
Score(t, feats, logit) ==
    IF ExpOverflows(FNeg(logit))
    THEN {[raised |-> "OverflowError", value |-> EmptyDict, ai_probability |-> NoProb]}
    ELSE {[raised |-> "none", value |-> Formatted(t, feats, Report(p)), ai_probability |-> p] :
             p \in Sigmoid(logit)}

\* predict once extract_features has returned
PredictFrom(t, feats) ==
    IF DOMAIN feats = {}
    THEN {[raised |-> "none", value |-> DegenerateResult, ai_probability |-> NoProb]}
    ELSE Score(t, feats, Logit(feats))

\* predict(text): what it can raise ("none" when it returns) and return
Predict(t) == PredictFrom(t, ExtractFeatures(t))

(***************************************************************************)
(* Inputs                                                                  *)
(***************************************************************************)
\* the longest unit a text is built from
MaxUnitLen == 3

\* the most times the unit is repeated
MaxRepeat == 5

\* letters that spell a first-person pronoun (i), a passive indicator (is)
\* and an informal marker (hi), one capital, white space, a sentence
\* terminator, a clause marker and the apostrophe of a contraction
Alphabet == {"i", "s", "h", "I", " ", ".", ",", "'"}

\* the strings over chars of length at most n
StringsOver(chars, n) == UNION {[1..k -> chars] : k \in 0..n}

\* the longest unit over WideAlphabet
MaxWideLen == 3

\* characters above U+007F and control characters the code classifies: a
\* lower-case and an upper-case letter that are \w and not [a-zA-Z], the
\* white space U+000B and U+00A0, and what spells a contraction around them
WideAlphabet == {"é", "É", "", " ", "i", "s", "'", "."}

\* unit * n
Repeat(unit, n) == [i \in 1..(Len(unit) * n) |-> unit[((i - 1) % Len(unit)) + 1]]

\* the texts the feature extractor and predict are called on
Texts ==
    {Repeat(unit, n) :
        unit \in StringsOver(Alphabet, MaxUnitLen), n \in {1, MaxRepeat - 1, MaxRepeat}}

\* the texts the tokenizer and the sentence splitter are called on
WordTexts ==
    {Repeat(unit, n) :
        unit \in StringsOver(Alphabet \cup {"1", "_"}, MaxUnitLen)
                 \cup StringsOver(WideAlphabet, MaxWideLen),
        n \in 1..MaxRepeat}

\* the distance between the probabilities the decision step is run on
GridStep == 500

\* the probabilities of the grid are multiples of 1 / ProbScale
ProbScale == 1000000

\* the floats nearest the multiples of GridStep / ProbScale (with GridStep =
\* 500: every probability whose percentage has one decimal, and every tie
\* between two of them) and nearest their two neighbours on the grid, and
\* the floats around the two thresholds
ProbGrid ==
    {Ratio(n, ProbScale) :
        n \in {k * GridStep + d : k \in 0..(ProbScale \div GridStep), d \in {-1, 0, 1}}
               \cap 0..ProbScale}
    \cup UNION {{FPrev(a), a, FNext(a)} : a \in {Threshold, FSub(One, Threshold)}}

(***************************************************************************)
(* The model called directly: one call of one method on one text, or the   *)
(* decision step of predict run on one probability                         *)
(***************************************************************************)
NoRequest == [content_length |-> "none"]

NoResponse == [status |-> 0]

Idle ==
    /\ op = "none"
    /\ words = <<>>
    /\ sentences = <<>>
    /\ features = EmptyDict
    /\ result = EmptyDict
    /\ fault = "none"
    /\ response = NoResponse
    /\ predict_called = FALSE

Init ==
    /\ \/ text \in Texts /\ prob = NoProb
       \/ text = <<>> /\ prob \in ProbGrid
    /\ request = NoRequest
    /\ Idle

CallTokenize ==
    /\ op = "none"
    /\ request = NoRequest
    /\ prob = NoProb
    /\ op' = "_tokenize"
    /\ words' = Tokenize(text)
    /\ UNCHANGED <<text, sentences, features, result, fault, request, response, predict_called, prob>>

CallSplitSentences ==
    /\ op = "none"
    /\ request = NoRequest
    /\ prob = NoProb
    /\ op' = "_split_sentences"
    /\ sentences' = SplitSentences(text)
    /\ UNCHANGED <<text, words, features, result, fault, request, response, predict_called, prob>>

CallExtractFeatures ==
    /\ op = "none"
    /\ request = NoRequest
    /\ prob = NoProb
    /\ op' = "extract_features"
    /\ features' = ExtractFeatures(text)
    /\ UNCHANGED <<text, words, sentences, result, fault, request, response, predict_called, prob>>

CallPredict ==
    /\ op = "none"
    /\ request = NoRequest
    /\ prob = NoProb
    /\ op' = "predict"
    /\ \E outcome \in Predict(text) :
           /\ result' = outcome.value
           /\ fault' = outcome.raised
           /\ prob' = outcome.ai_probability
    /\ UNCHANGED <<text, words, sentences, features, request, response, predict_called>>

\* lines 193-213 of predict run on prob
CallDecide ==
    /\ op = "none"
    /\ request = NoRequest
    /\ prob # NoProb
    /\ op' = "decide"
    /\ result' = Report(prob)
    /\ UNCHANGED <<text, words, sentences, features, fault, request, response,
                   predict_called, prob>>

NextText == CallTokenize \/ CallSplitSentences \/ CallExtractFeatures \/ CallPredict

Next == NextText \/ CallDecide

Spec == Init /\ [][Next]_vars

(***************************************************************************)
(* The tokenizer and the sentence splitter called on texts of every        *)
(* character class                                                         *)
(***************************************************************************)
InitWords ==
    /\ text \in WordTexts
    /\ prob = NoProb
    /\ request = NoRequest
    /\ Idle

NextWords == CallTokenize \/ CallSplitSentences

SpecWords == InitWords /\ [][NextWords]_vars

(***************************************************************************)
(* The model called on long texts: a short head followed by a long run of  *)
(* one character                                                           *)
(***************************************************************************)
\* the longest head of a long text
MaxHeadLen == 2

\* the length of the run that follows the head
PadLen == 1500

LongTexts ==
    {head \o Repeat(<<pad>>, PadLen) :
        head \in StringsOver(Alphabet, MaxHeadLen), pad \in {"-", ","}}

InitLong ==
    /\ text \in LongTexts
    /\ prob = NoProb
    /\ request = NoRequest
    /\ Idle

SpecLong == InitLong /\ [][NextText]_vars

(***************************************************************************)
(* The request handler                                                     *)
(***************************************************************************)
\* the 50 of len(text.strip()) < 50
MinTextLength == 50

\* the longest unit the text of a request is built from
MaxPostUnitLen == 2

\* a JSON value as json.loads returns it: its type, and what the handler
\* reads of it (the characters of a string, the truth value of the rest)
JsonString(chars) == [type |-> "str", chars |-> chars, truthy |-> Len(chars) > 0]

JsonOther(type, truthy) == [type |-> type, chars |-> <<>>, truthy |-> truthy]

\* 0 and 7, null, false and true, [] and [1], {} and {"a": 1}
NonStrings ==
    {JsonOther("int", b) : b \in BOOLEAN} \cup {JsonOther("NoneType", FALSE)}
    \cup {JsonOther("bool", b) : b \in BOOLEAN}
    \cup {JsonOther("list", b) : b \in BOOLEAN}
    \cup {JsonOther("dict", b) : b \in BOOLEAN}

\* texts whose length is around MinTextLength, stripped or not
PostTexts ==
    {Repeat(unit, n) :
        unit \in StringsOver(Alphabet, MaxPostUnitLen)
                 \cup StringsOver(WideAlphabet, MaxPostUnitLen),
        n \in {(MinTextLength \div k) + e : k \in 1..MaxPostUnitLen, e \in {-1, 0, 1}}}

\* the body as self.rfile.read(content_length).decode('utf-8') and json.loads
\* see it: bytes that are not UTF-8 (the byte 0xff), text that is not JSON, or
\* a JSON document (an object with or without a "text" member, or a value of
\* another type)
Bodies ==
    {[kind |-> k, data |-> JsonOther("NoneType", FALSE), has_text |-> FALSE,
      text_value |-> JsonOther("NoneType", FALSE)] : k \in {"bad_utf8", "bad_json"}}
    \cup {[kind |-> "json", data |-> d, has_text |-> FALSE,
           text_value |-> JsonOther("NoneType", FALSE)] :
             d \in NonStrings \cup {JsonString(<<"i">>)}}
    \cup {[kind |-> "json", data |-> JsonOther("dict", TRUE), has_text |-> TRUE,
           text_value |-> v] :
             v \in NonStrings \cup {JsonString(t) : t \in PostTexts}}

\* the Content-Length header: the length of the body, missing, or no number
\* (the value abc)
Requests == [content_length : {"valid", "absent", "malformed"}, body : Bodies]

\* send_error_response(status_code, message)
ErrorResponse(status_code, message) ==
    [status |-> status_code, body |-> [error |-> message]]

\* the except Exception branch of do_POST
InternalError(exception) == ErrorResponse(500, "Internal server error: " \o exception)

TooShortMessage == "Text must be at least 50 characters long for accurate analysis"

\* do_POST from the call of detector.predict on
Respond(outcome) ==
    IF outcome.raised # "none"
    THEN [response |-> InternalError("math range error"), called |-> TRUE]
    ELSE [response |-> [status |-> 200, body |-> outcome.value], called |-> TRUE]

\* do_POST from the point where text = data.get('text', '') is known
HandleText(v) ==
    IF ~v.truthy THEN {[response |-> ErrorResponse(400, TooShortMessage), called |-> FALSE]}
    ELSE IF v.type # "str"
    THEN {[response |-> InternalError("'" \o v.type \o "' object has no attribute 'strip'"),
           called |-> FALSE]}
    ELSE IF Len(Strip(v.chars)) < MinTextLength
    THEN {[response |-> ErrorResponse(400, TooShortMessage), called |-> FALSE]}
    ELSE {Respond(outcome) : outcome \in Predict(v.chars)}

\* do_POST: the responses it can send, each with whether it called
\* detector.predict
HandlePost(req) ==
    IF req.content_length = "malformed"
    THEN {[response |-> InternalError("invalid literal for int() with base 10: 'abc'"),
           called |-> FALSE]}
    ELSE IF req.content_length = "absent"
    THEN {[response |-> ErrorResponse(400, "Invalid JSON format"), called |-> FALSE]}
    ELSE IF req.body.kind = "bad_utf8"
    THEN {[response |-> InternalError("'utf-8' codec can't decode byte 0xff in position 0: invalid start byte"), called |-> FALSE]}
    ELSE IF req.body.kind = "bad_json"
    THEN {[response |-> ErrorResponse(400, "Invalid JSON format"), called |-> FALSE]}
    ELSE IF req.body.data.type # "dict"
    THEN {[response |-> InternalError("'" \o req.body.data.type
                                          \o "' object has no attribute 'get'"),
           called |-> FALSE]}
    ELSE HandleText(IF req.body.has_text THEN req.body.text_value ELSE JsonString(<<>>))

InitPost ==
    /\ request \in Requests
    /\ text = <<>>
    /\ prob = NoProb
    /\ Idle

DoPost ==
    /\ op = "none"
    /\ request # NoRequest
    /\ op' = "do_POST"
    /\ \E handled \in HandlePost(request) :
           /\ response' = handled.response
           /\ predict_called' = handled.called
    /\ UNCHANGED <<text, words, sentences, features, result, fault, request, prob>>

SpecPost == InitPost /\ [][DoPost]_vars

(***************************************************************************)
(* Properties                                                              *)
(***************************************************************************)
\* predict returned a record for a text that has words
Scored == op = "predict" /\ fault = "none" /\ Len(Tokenize(text)) > 0

\* C1: predict(text) returns a record for every string and never raises; in
\* particular the sigmoid 1 / (1 + e^(-logit)) completes for every feature
\* vector a text can produce.
C1_PredictNeverRaises == op = "predict" => fault = "none"

\* C2: for a text with no letter in it (empty and blank texts included)
\* predict returns Unknown, confidence
\* 0.0, aiProbability 50.0, humanProbability 50.0, an empty feature summary
\* and the message "Text too short or invalid for analysis".
C2_DegenerateIsUnknownFiftyFifty ==
    (op = "predict" /\ \A i \in 1..Len(text) : ~IsLetter(text[i])) =>
        /\ fault = "none"
        /\ result.prediction = "Unknown"
        /\ result.confidence = 0
        /\ result.ai_probability = 500
        /\ result.human_probability = 500
        /\ DOMAIN result.features = {}
        /\ result.message = "Text too short or invalid for analysis"

ScoreResultFields ==
    {"prediction", "confidence", "ai_probability", "human_probability",
     "word_count", "features", "message"}

\* C3: every record predict returns, degenerate or scored, has all the
\* fields of a ScoreResult: a label among AI, Human, Uncertain, Unknown, the
\* three numbers between 0 and 100, the word count of the text, a feature
\* summary and a message.
C3_CompleteScoreResult ==
    (op = "predict" /\ fault = "none") =>
        /\ DOMAIN result = ScoreResultFields
        /\ result.prediction \in {"AI", "Human", "Uncertain", "Unknown"}
        /\ result.confidence \in 0..1000
        /\ result.ai_probability \in 0..1000
        /\ result.human_probability \in 0..1000
        /\ result.word_count = Len(Tokenize(text))

\* the float p exceeds 0.6
Exceeds(p) == FLess(Threshold, p)

\* the label and the confidence that strict thresholds at 0.6 give the pair
\* of floats p (ai) and h (human)
LabelledStrictly(r, p, h) ==
    /\ ~(Exceeds(p) /\ Exceeds(h))
    /\ r.prediction = "AI" <=> Exceeds(p)
    /\ r.prediction = "Human" <=> (~Exceeds(p) /\ Exceeds(h))
    /\ r.prediction = "Uncertain" <=> (~Exceeds(p) /\ ~Exceeds(h))
    /\ r.prediction = "AI" => r.confidence = RoundPercent(p)
    /\ r.prediction = "Human" => r.confidence = RoundPercent(h)
    /\ r.prediction = "Uncertain" =>
           r.confidence = RoundPercent(IF FLess(p, h) THEN h ELSE p)

LabelledByProbability(r, p) == LabelledStrictly(r, p, FSub(One, p))

\* C4: the label is AI exactly when the unrounded aiProbability exceeds 0.6,
\* otherwise Human exactly when the unrounded humanProbability exceeds 0.6,
\* otherwise Uncertain with the larger of the two as confidence; a
\* probability of exactly 0.6 gives Uncertain, and AI and Human are never
\* both eligible.
C4_LabelByStrictThresholds ==
    (op = "decide" \/ Scored) => LabelledByProbability(result, prob)

C4_Witness ==
    /\ op = "decide"
    /\ prob = Threshold
    /\ result.prediction = "Uncertain"
    /\ result.confidence = 600

\* C5: for a text that is scored, the reported aiProbability and
\* humanProbability sum to 100.0 within 0.1.
C5_ProbabilitiesSumTo100 ==
    (Scored \/ op = "decide") =>
        result.ai_probability + result.human_probability \in 999..1001

C5_Witness ==
    /\ Scored
    /\ result.ai_probability \in 1..999
    /\ result.ai_probability + result.human_probability = 1000

\* the payloads C6 lists: a body that is not JSON, a JSON value that is no
\* object, a text member that is missing or no string, and a text of fewer
\* than MinTextLength characters once stripped (the empty text included)
Rejectable(req) ==
    /\ req.content_length = "valid"
    /\ \/ req.body.kind = "bad_json"
       \/ /\ req.body.kind = "json"
          /\ \/ req.body.data.type # "dict"
             \/ ~req.body.has_text
             \/ req.body.text_value.type # "str"
             \/ Len(Strip(req.body.text_value.chars)) < MinTextLength

\* C6: do_POST answers every such payload with status 400 and the body
\* {"error": message} without calling detector.predict, and calls predict
\* only on a string of at least MinTextLength stripped characters.
C6_MalformedRejectedWith400 ==
    op = "do_POST" =>
        /\ Rejectable(request) =>
              /\ response.status = 400
              /\ DOMAIN response.body = {"error"}
              /\ ~predict_called
        /\ predict_called =>
              /\ request.body.kind = "json"
              /\ request.body.has_text
              /\ request.body.text_value.type = "str"
              /\ Len(Strip(request.body.text_value.chars)) >= MinTextLength

\* the floats a and b differ by less than one part in 10^9
Near(a, b) == FLess([FSub(a, b) EXCEPT !.s = 0], Ratio(1, 1000000000))

\* the float f is 1 - penalty / w clamped to [0, 1]
ClampedFormality(f, w, penalty) ==
    /\ ~FLess(f, Zero) /\ ~FLess(One, f)
    /\ penalty >= w => f = Zero
    /\ penalty = 0 => f = One
    /\ penalty < w => Near(f, Ratio(w - penalty, w))

\* 2 * (number of contractions) + (number of informal words)
Penalty(t) ==
    2 * CountContractions(Lower(t), 1) + CountWords(Tokenize(t), InformalMarkers)

\* C7: formality_score lies in [0, 1] and is 1 - (2 * contraction_ratio +
\* informal_word_ratio) clamped to [0, 1]: exactly 0 when that sum reaches 1
\* or more, exactly 1 when there are no contractions and no informal words.
C7_FormalityClamped ==
    (op = "extract_features" /\ DOMAIN features # {}) =>
        ClampedFormality(features.formality_score, Len(Tokenize(text)), Penalty(text))

C7_Witness ==
    /\ op = "extract_features"
    /\ DOMAIN features # {}
    /\ Penalty(text) > Len(Tokenize(text))
    /\ features.formality_score = Zero

\* where the maximal runs of letters of t start
LetterRunStarts(t) ==
    {i \in 1..Len(t) : IsLetter(t[i]) /\ ~IsLetter(CharAt(t, i-1))}

\* the run of letters that starts at i has no word character on either side
Isolated(t, i) ==
    /\ ~IsWordChar(CharAt(t, i-1))
    /\ ~IsWordChar(CharAt(t, RunEnd(t, i, LetterSet) + 1))

\* the runs of letters that start at the given positions, in order
RunsAt(t, starts) ==
    [k \in 1..Len(starts) |-> SubSeq(t, starts[k], RunEnd(t, starts[k], LetterSet))]

\* C8 as stated: the tokenizer returns every maximal run of ASCII letters, in
\* order, a run next to a digit or an underscore included.
C8_EveryLetterRun ==
    op = "_tokenize" => words = RunsAt(text, SortedSeq(LetterRunStarts(text)))

\* C8 amended: the tokenizer returns, in order and with case preserved, the
\* maximal runs of ASCII letters that have no word character (digit,
\* underscore) on either side; a run next to one is dropped whole, and no
\* token contains anything but letters.
C8_IsolatedLetterRuns ==
    op = "_tokenize" =>
        /\ words = RunsAt(text, SortedSeq({i \in LetterRunStarts(text) : Isolated(text, i)}))
        /\ \A k \in 1..Len(words) : \A j \in 1..Len(words[k]) : IsLetter(words[k][j])

C8_Witness ==
    /\ op = "_tokenize"
    /\ Len(words) > 0
    /\ \E i \in LetterRunStarts(text) : ~Isolated(text, i)

\* the words are one word repeated at least four times
OneWordRepeated(ws) == Len(ws) >= 4 /\ \A k \in 1..Len(ws) : ws[k] = ws[1]

\* C9 as stated: for one word repeated n >= 4 times repetition_score is 1.0.
C9_RepetitionIsOne ==
    (op = "extract_features" /\ OneWordRepeated(Tokenize(text))) =>
        features.repetition_score = One

\* C9 amended: for one word repeated n >= 4 times all n - 2 trigrams are the
\* same, and repetition_score is the float 1 - 1/(n - 2), which is
\* (n - 3)/(n - 2) up to rounding: 0.5 for n = 4, 2/3 for n = 5.
C9_RepetitionOfOneWord ==
    (op = "extract_features" /\ OneWordRepeated(Tokenize(text))) =>
        /\ features.repetition_score = FSub(One, Ratio(1, Len(Tokenize(text)) - 2))
        /\ Near(features.repetition_score,
                Ratio(Len(Tokenize(text)) - 3, Len(Tokenize(text)) - 2))

C9_Witness ==
    /\ op = "extract_features"
    /\ OneWordRepeated(Tokenize(text))
    /\ Len(Tokenize(text)) = 5
    /\ Near(features.repetition_score, Ratio(2, 3))
    /\ features.repetition_score # One

FeatureKeys == Range(FeatureNames)

\* C10: extract_features returns the empty mapping or one with exactly the
\* ten feature keys; the empty one exactly when the text is empty or blank or
\* has no words or no sentences; and a text with a word has a sentence.
C10_FeaturesAllOrNothing ==
    op = "extract_features" =>
        /\ DOMAIN features = {} \/ DOMAIN features = FeatureKeys
        /\ DOMAIN features = {} <=>
              \/ Len(text) = 0
              \/ \A i \in 1..Len(text) : IsSpace(text[i])
              \/ Len(Tokenize(text)) = 0
              \/ Len(SplitSentences(text)) = 0
        /\ Len(Tokenize(text)) > 0 => Len(SplitSentences(text)) > 0

C10_Witness ==
    /\ op = "extract_features"
    /\ DOMAIN features = FeatureKeys
    /\ Cardinality(DOMAIN features) = 10
    /\ Len(SplitSentences(text)) > 1

====
